---- MODULE Spec2Model ----
(***************************************************************************)
(* State-machine model of the DRV8214 brushed-DC motor driver library      *)
(* (src/src/DRV8214.cpp, src/include/DRV8214.h).                            *)
(*                                                                         *)
(* The device is a bank of 8-bit registers reached through the register    *)
(* access layer; the driver object holds the configuration mirror          *)
(* (DRV8214_Config) and the constructor's fields.  Every public method is  *)
(* one action: it runs the whole handler, every nested call included, and  *)
(* records the bus writes it issued, in order, in `writes`.                *)
(*                                                                         *)
(* Units.  float quantities are carried as integers:                       *)
(*   voltages in centivolts (3.92 V = 392), currents in milliamperes       *)
(*   (0.125 A = 125), gain factors in uA/A (5560e-6 A/A = 5560).           *)
(* At centivolt granularity the float32 evaluation of                      *)
(* static_cast<uint8_t>(v * (255.0f / range) + 0.5f) equals the exact      *)
(* round-half-up used below for every input in -2 V .. 20 V.               *)
(***************************************************************************)
EXTENDS Integers, Sequences, FiniteSets, TLC

VARIABLES
    regs,      \* device register file: address -> byte
    config,    \* DRV8214::config, the configuration mirror
    driver,    \* constructor fields: Ripropri, ripples_per_revolution, ...
    pre,       \* [regs, config] as they were when the last call started
    call,      \* the last public call: [name, args]
    locals,    \* encoding chosen by the last scaling setter: [mantissa, selector]
    writes,    \* bus writes issued by the last call, in order: <<addr, byte>>
    steps      \* number of public calls made so far

vars == <<regs, config, driver, pre, call, locals, writes, steps>>

---------------------------------------------------------------------------
(* Register map (DRV8214.h)                                                *)

DRV8214_RC_STATUS1 == 1
DRV8214_CONFIG0    == 9
DRV8214_CONFIG1    == 10
DRV8214_CONFIG2    == 11
DRV8214_CONFIG3    == 12
DRV8214_CONFIG4    == 13
DRV8214_REG_CTRL0  == 14
DRV8214_REG_CTRL1  == 15
DRV8214_RC_CTRL0   == 17
DRV8214_RC_CTRL1   == 18
DRV8214_RC_CTRL2   == 19
DRV8214_RC_CTRL3   == 20

RegisterAddresses ==
    { DRV8214_RC_STATUS1, DRV8214_CONFIG0, DRV8214_CONFIG1, DRV8214_CONFIG2,
      DRV8214_CONFIG3, DRV8214_CONFIG4, DRV8214_REG_CTRL0, DRV8214_REG_CTRL1,
      DRV8214_RC_CTRL0, DRV8214_RC_CTRL1, DRV8214_RC_CTRL2, DRV8214_RC_CTRL3 }

CONFIG0_EN_OUT      == 128
CONFIG0_EN_OVP      == 64
CONFIG0_EN_STALL    == 32
CONFIG0_VM_GAIN_SEL == 8
CONFIG0_CLR_CNT     == 4
CONFIG0_CLR_FLT     == 2

CONFIG3_IMODE    == 192
CONFIG3_SMODE    == 32
CONFIG3_INT_VREF == 16

CONFIG4_PMODE      == 8
CONFIG4_I2C_BC     == 4
CONFIG4_I2C_EN_IN1 == 2
CONFIG4_I2C_PH_IN2 == 1

REG_CTRL0_REG_CTRL == 24
REG_CTRL0_W_SCALE  == 3

RC_CTRL0_EN_RC       == 128
RC_CTRL0_RC_HIZ      == 32
RC_CTRL0_CS_GAIN_SEL == 7

RC_CTRL2_INV_R_SCALE  == 192
RC_CTRL2_KMC_SCALE    == 48
RC_CTRL2_RC_THR_SCALE == 24
RC_CTRL2_RC_THR_HIGH  == 3

---------------------------------------------------------------------------
(* C integer operators on bytes and 16-bit words                           *)

UINT8_MAX  == 255
UINT16_MAX == 65535

RECURSIVE AndBits(_, _, _)
AndBits(a, b, n) ==
    IF n = 0 THEN 0
    ELSE (a % 2) * (b % 2) + 2 * AndBits(a \div 2, b \div 2, n - 1)

\* a & b on bytes, tabulated once
AndTable == [a \in 0 .. UINT8_MAX |-> [b \in 0 .. UINT8_MAX |-> AndBits(a, b, 8)]]

\* a & b on 16-bit operands, byte by byte
BitAnd(a, b) ==
    AndTable[a % 256][b % 256] + 256 * AndTable[a \div 256][b \div 256]

\* a | b
BitOr(a, b) == a + b - BitAnd(a, b)

\* (uint8_t) ~mask
BitNot8(mask) == UINT8_MAX - mask

\* a << n, a >> n
ShiftLeft(a, n)  == a * (2 ^ n)
ShiftRight(a, n) == a \div (2 ^ n)

\* conversion of an int expression to a uint8_t parameter
ToUint8(x) == x % 256

\* the value of the field selected by `mask`, right-aligned
RECURSIVE LowestBit(_)
LowestBit(mask) == IF mask % 2 = 1 THEN 1 ELSE 2 * LowestBit(mask \div 2)

Field(byte, mask) == BitAnd(byte, mask) \div LowestBit(mask)

---------------------------------------------------------------------------
(* Register access layer.  A handler is a function on the machine          *)
(*   m = [regs, config, locals, log]                                       *)
(* and the layer's primitives append to m.log every byte they put on the   *)
(* bus.                                                                    *)

\* CONFIG0.CLR_CNT and CONFIG0.CLR_FLT are cleared by the device itself
\* once it has acted on them, so they never read back as 1.
DeviceLatch(reg, value) ==
    IF reg = DRV8214_CONFIG0
    THEN BitAnd(value, BitNot8(BitOr(CONFIG0_CLR_CNT, CONFIG0_CLR_FLT)))
    ELSE value

readRegister(m, reg) == m.regs[reg]

writeRegister(m, reg, value) ==
    [m EXCEPT !.regs[reg] = DeviceLatch(reg, value),
              !.log = Append(@, <<reg, value>>)]

\* read, set or clear every bit of `mask` as `enableBit` says, write back
modifyRegister(m, reg, mask, enableBit) ==
    writeRegister(m, reg,
        IF enableBit THEN BitOr(readRegister(m, reg), mask)
                     ELSE BitAnd(readRegister(m, reg), BitNot8(mask)))

\* read, replace the bits of `mask` by the same bits of `newValue`, write back
modifyRegisterBits(m, reg, mask, newValue) ==
    writeRegister(m, reg,
        BitOr(BitAnd(readRegister(m, reg), BitNot8(mask)), BitAnd(newValue, mask)))

\* conversion of an integer argument to bool
ToBool(x) == x # 0

\* sequencing: the statements `rest` run on the machine `m` left by the
\* statements before them
Then(m, rest(_)) == rest(m)

---------------------------------------------------------------------------
(* Control functions                                                       *)

enableHbridge(m)  == modifyRegister(m, DRV8214_CONFIG0, CONFIG0_EN_OUT, TRUE)

disableHbridge(m) == modifyRegister(m, DRV8214_CONFIG0, CONFIG0_EN_OUT, FALSE)

setStallDetection(m, stall_en) ==
    modifyRegister([m EXCEPT !.config.stall_enabled = stall_en],
                   DRV8214_CONFIG3, CONFIG0_EN_STALL, stall_en)

setVoltageRange(m, range) ==
    modifyRegister([m EXCEPT !.config.voltage_range = range],
                   DRV8214_CONFIG0, CONFIG0_VM_GAIN_SEL, range)

setOvervoltageProtection(m, OVP) ==
    modifyRegister([m EXCEPT !.config.ovp_enabled = OVP],
                   DRV8214_CONFIG0, CONFIG0_EN_OVP, TRUE)

resetRippleCounter(m) == modifyRegister(m, DRV8214_CONFIG0, CONFIG0_CLR_CNT, TRUE)

setInrushDuration(m, threshold) ==
    LET m1 == writeRegister(m, DRV8214_CONFIG1, BitAnd(ShiftRight(threshold, 8), 255))
    IN  writeRegister(m1, DRV8214_CONFIG2, BitAnd(threshold, 255))

\* switch (mode) after the cap to 3
CurrentRegModeBits(mode) ==
    CASE mode = 0 -> 0
      [] mode = 1 -> 64
      [] mode = 2 -> 128
      [] OTHER    -> 192

setCurrentRegMode(m, mode) ==
    LET capped == IF mode > 3 THEN 3 ELSE mode
        bits   == CurrentRegModeBits(capped)
    IN  modifyRegisterBits([m EXCEPT !.config.current_reg_mode = bits],
                           DRV8214_CONFIG3, CONFIG3_IMODE, bits)

setStallBehavior(m, behavior) ==
    modifyRegister([m EXCEPT !.config.stall_behavior = behavior],
                   DRV8214_CONFIG3, CONFIG3_SMODE, behavior)

\* reference_voltage in millivolts; 0 selects the internal 500 mV reference
setInternalVoltageReference(m, reference_voltage) ==
    IF reference_voltage = 0
    THEN modifyRegister([m EXCEPT !.config.Vref = 500],
                        DRV8214_CONFIG3, CONFIG3_INT_VREF, TRUE)
    ELSE modifyRegister([m EXCEPT !.config.Vref = reference_voltage],
                        DRV8214_CONFIG3, CONFIG3_INT_VREF, FALSE)

setI2CControl(m, I2CControl) ==
    modifyRegister([m EXCEPT !.config.I2CControlled = I2CControl],
                   DRV8214_CONFIG4, CONFIG4_I2C_BC, I2CControl)

enablePWMControl(m)  == modifyRegister(m, DRV8214_CONFIG4, CONFIG4_PMODE, TRUE)

enablePHENControl(m) == modifyRegister(m, DRV8214_CONFIG4, CONFIG4_PMODE, FALSE)

setBridgeBehaviorThresholdReached(m, stops) ==
    modifyRegister([m EXCEPT !.config.bridge_behavior_thr_reached = stops],
                   DRV8214_RC_CTRL0, RC_CTRL0_RC_HIZ, stops)

enableRippleCount(m) == modifyRegister(m, DRV8214_RC_CTRL0, RC_CTRL0_EN_RC, TRUE)

configureRippleCount2(m, ripple2) == writeRegister(m, DRV8214_RC_CTRL2, ripple2)

---------------------------------------------------------------------------
(* Unit scaling: current-sense gain                                        *)

\* mutant: the brackets are closed at their upper end
CurrentBelowOrEqual(requested_current, limit) == requested_current <= limit

\* requested_current < limit, both in mA
CurrentBelow(requested_current, limit) == requested_current < limit

\* the if / else-if chain over requested_current:
\* [cs_gain_sel, Aipropri (uA/A), MaxCurrent (mA)]
GainSetting(requested_current) ==
    IF CurrentBelow(requested_current, 125)
    THEN [cs_gain_sel |-> 7, Aipropri |-> 5560, MaxCurrent |-> 125]
    ELSE IF CurrentBelow(requested_current, 250)
    THEN [cs_gain_sel |-> 6, Aipropri |-> 5560, MaxCurrent |-> 250]
    ELSE IF CurrentBelow(requested_current, 500)
    THEN [cs_gain_sel |-> 3, Aipropri |-> 1125, MaxCurrent |-> 500]
    ELSE IF CurrentBelow(requested_current, 1000)
    THEN [cs_gain_sel |-> 2, Aipropri |-> 1125, MaxCurrent |-> 1000]
    ELSE IF CurrentBelow(requested_current, 2000)
    THEN [cs_gain_sel |-> 1, Aipropri |-> 225, MaxCurrent |-> 2000]
    ELSE [cs_gain_sel |-> 0, Aipropri |-> 225, MaxCurrent |-> 4000]

\* config.Vref / (Ripropri * config.Aipropri) in mA, rounded down;
\* -1 stands for the float infinity of a division by zero
TripCurrent(Vref, Ripropri, Aipropri) ==
    IF Ripropri * Aipropri = 0 THEN -1
    ELSE (Vref * 1000000) \div (Ripropri * Aipropri)

setRegulationAndStallCurrent(m, Ripropri, requested_current) ==
    LET g  == GainSetting(requested_current)
        m1 == [m EXCEPT !.config.Aipropri = g.Aipropri,
                        !.config.MaxCurrent = g.MaxCurrent]
    IN  Then(modifyRegisterBits(m1, DRV8214_RC_CTRL0, RC_CTRL0_CS_GAIN_SEL,
                                g.cs_gain_sel), LAMBDA m2 :
        [m2 EXCEPT !.config.Itrip = TripCurrent(m2.config.Vref, Ripropri, g.Aipropri)])

---------------------------------------------------------------------------
(* Unit scaling: ripple speed                                              *)

MAX_SPEED == 32640

SpeedScaleOptions ==
    << [scale |-> 16,  bits |-> 0], [scale |-> 32,  bits |-> 1],
       [scale |-> 64,  bits |-> 2], [scale |-> 128, bits |-> 3] >>

\* if (WSET_VSET < 255)
SpeedFits(WSET_VSET) == WSET_VSET < 255

\* the for loop from option i on, with the current WSET_VSET and W_SCALE
RECURSIVE SpeedLoop(_, _, _, _)
SpeedLoop(speed, i, WSET_VSET, W_SCALE) ==
    IF i > Len(SpeedScaleOptions) THEN [WSET_VSET |-> WSET_VSET, W_SCALE |-> W_SCALE]
    ELSE LET option == SpeedScaleOptions[i] IN
         IF speed >= option.scale
         THEN LET q == speed \div option.scale IN
              IF SpeedFits(q)
              THEN [WSET_VSET |-> q, W_SCALE |-> option.bits]
              ELSE SpeedLoop(speed, i + 1, q, W_SCALE)
         ELSE SpeedLoop(speed, i + 1, WSET_VSET, W_SCALE)

setRippleSpeed(m, speed0) ==
    LET speed     == IF speed0 > MAX_SPEED THEN MAX_SPEED ELSE speed0
        found     == SpeedLoop(speed, 1, speed, 0)
        WSET_VSET == BitAnd(found.WSET_VSET, 255)
        W_SCALE   == found.W_SCALE
        m1 == [m EXCEPT !.config.w_scale = W_SCALE,
                        !.locals = [mantissa |-> WSET_VSET, selector |-> W_SCALE]]
        m2 == writeRegister(m1, DRV8214_REG_CTRL1, WSET_VSET)
    IN  modifyRegister(m2, DRV8214_REG_CTRL0, REG_CTRL0_W_SCALE, ToBool(W_SCALE))

\* uint16_t getMotorSpeedRAD(): the status byte times config.w_scale
getMotorSpeedRAD(m) ==
    (readRegister(m, DRV8214_RC_STATUS1) * m.config.w_scale) % (UINT16_MAX + 1)

---------------------------------------------------------------------------
(* Unit scaling: terminal voltage (centivolts)                             *)

\* static_cast<uint8_t>(voltage * (255.0f / range) + 0.5f)
VoltageCode(voltage, range) == (2 * 255 * voltage + range) \div (2 * range)

\* mutant: requests above the range are clamped to its nominal ceiling
LowGainClampToCeiling(voltage) == IF voltage > 1570 THEN 1570 ELSE voltage

\* if (voltage > 15.7f) { voltage = 11.0f; }
LowGainClamp(voltage) == IF voltage > 1570 THEN 1100 ELSE voltage

setVoltageSpeed(m, voltage0) ==
    LET voltage == IF voltage0 < 0 THEN 0 ELSE voltage0 IN
    IF m.config.voltage_range
    THEN LET v == IF voltage > 392 THEN 392 ELSE voltage
         IN  writeRegister(m, DRV8214_REG_CTRL1, ToUint8(VoltageCode(v, 392)))
    ELSE LET v == LowGainClamp(voltage)
         IN  writeRegister(m, DRV8214_REG_CTRL1, ToUint8(VoltageCode(v, 1570)))

---------------------------------------------------------------------------
(* Unit scaling: ripple-count threshold                                    *)

MAX_THRESHOLD == 65535

ThresholdScaleOptions ==
    << [scale |-> 2,  bits |-> 0], [scale |-> 8,  bits |-> 1],
       [scale |-> 16, bits |-> 2], [scale |-> 64, bits |-> 3] >>

\* mutant: the fit test admits 1024, one more than ten bits hold
ThresholdFitsInclusive(rc_thr) == rc_thr <= 1024

\* if (rc_thr < 1024)
ThresholdFits(rc_thr) == rc_thr < 1024

RECURSIVE ThresholdLoop(_, _, _, _)
ThresholdLoop(threshold, i, rc_thr, rc_thr_scale_bits) ==
    IF i > Len(ThresholdScaleOptions)
    THEN [rc_thr |-> rc_thr, rc_thr_scale_bits |-> rc_thr_scale_bits]
    ELSE LET option == ThresholdScaleOptions[i] IN
         IF threshold >= option.scale
         THEN LET q == threshold \div option.scale IN
              IF ThresholdFits(q)
              THEN [rc_thr |-> q, rc_thr_scale_bits |-> option.bits]
              ELSE ThresholdLoop(threshold, i + 1, q, rc_thr_scale_bits)
         ELSE ThresholdLoop(threshold, i + 1, rc_thr, rc_thr_scale_bits)

\* the byte written to RC_CTRL2
ThresholdCtrl2Byte(rc_thr_high, rc_thr_scale_bits) ==
    ToUint8(BitOr(ShiftLeft(rc_thr_high, 6), ShiftLeft(rc_thr_scale_bits, 2)))

setRippleCountThreshold(m, threshold0) ==
    LET threshold   == IF threshold0 > MAX_THRESHOLD THEN MAX_THRESHOLD ELSE threshold0
        found       == ThresholdLoop(threshold, 1, threshold, 0)
        rc_thr      == BitAnd(found.rc_thr, 1023)
        rc_thr_low  == BitAnd(rc_thr, 255)
        rc_thr_high == BitAnd(ShiftRight(rc_thr, 8), 3)
        m1 == [m EXCEPT !.locals = [mantissa |-> rc_thr,
                                    selector |-> found.rc_thr_scale_bits]]
        m2 == writeRegister(m1, DRV8214_RC_CTRL1, rc_thr_low)
    IN  writeRegister(m2, DRV8214_RC_CTRL2,
                      ThresholdCtrl2Byte(rc_thr_high, found.rc_thr_scale_bits))

---------------------------------------------------------------------------
(* Unit scaling: inverse motor resistance (resistance in tenths of an ohm) *)

setMotorInverseResistance(m, resistance) ==
    writeRegister(m, DRV8214_RC_CTRL3, resistance)

\* the argument is converted to the uint8_t parameter `scale`
setMotorInverseResistanceScale(m, scale) ==
    modifyRegisterBits(m, DRV8214_RC_CTRL2, RC_CTRL2_INV_R_SCALE, ToUint8(scale))

InvRScaleValues == << 2, 64, 1024, 8192 >>
InvRScaleBits   == << 0, 1, 2, 3 >>

\* mutant: the quotient is truncated instead of rounded
InvRCandidateTruncated(scaleValue, resistance) ==
    IF resistance = 0 THEN UINT16_MAX
    ELSE LET truncated == IF resistance > 0 THEN (10 * scaleValue) \div resistance
                          ELSE 0
         IN  IF truncated < 1 THEN 1 ELSE truncated

\* roundf(scaleValue / motor_internal_resistance), at least 1; a division
\* by zero gives +infinity, which no candidate test accepts (UINT16_MAX here)
InvRCandidate(scaleValue, resistance) ==
    IF resistance = 0 THEN UINT16_MAX
    ELSE LET rounded == IF resistance > 0
                        THEN (20 * scaleValue + resistance) \div (2 * resistance)
                        ELSE 0
         IN  IF rounded < 1 THEN 1 ELSE rounded

\* for (int i = 3; i >= 0; --i), indices shifted by one
RECURSIVE InvRLoop(_, _)
InvRLoop(resistance, i) ==
    IF i < 1 THEN [bestScaleBits |-> 0, bestInvR |-> 1]
    ELSE LET rounded == InvRCandidate(InvRScaleValues[i], resistance) IN
         IF rounded <= 255
         THEN [bestScaleBits |-> InvRScaleBits[i], bestInvR |-> rounded]
         ELSE InvRLoop(resistance, i - 1)

setResistanceRelatedParameters(m, motor_internal_resistance) ==
    LET best == InvRLoop(motor_internal_resistance, 4)
        m1 == [m EXCEPT !.config.inv_r = best.bestInvR,
                        !.config.inv_r_scale = best.bestScaleBits]
        m2 == setMotorInverseResistanceScale(m1, best.bestScaleBits)
    IN  setMotorInverseResistance(m2, best.bestInvR)

---------------------------------------------------------------------------
(* Motor control functions                                                 *)

setControlMode(m, mode, I2CControl) ==
    Then(setI2CControl([m EXCEPT !.config.control_mode = mode], I2CControl), LAMBDA m1 :
    IF mode = "PWM" THEN enablePWMControl(m1) ELSE enablePHENControl(m1))

RegCtrlBits(regulation) ==
    CASE regulation = "CURRENT_FIXED"  -> ShiftLeft(0, 3)
      [] regulation = "CURRENT_CYCLES" -> ShiftLeft(1, 3)
      [] regulation = "SPEED"          -> ShiftLeft(2, 3)
      [] regulation = "VOLTAGE"        -> ShiftLeft(3, 3)

setRegulationMode(m, regulation) ==
    LET m1 == IF regulation = "SPEED" THEN enableRippleCount(m) ELSE m
    IN  modifyRegisterBits([m1 EXCEPT !.config.regulation_mode = regulation],
                           DRV8214_REG_CTRL0, REG_CTRL0_REG_CTRL, RegCtrlBits(regulation))

\* mutant: the speed is applied whatever the regulation mode
applyRippleSpeedOnly(m, Ripropri, speed, voltage, requested_current) ==
    setRippleSpeed(m, speed)

\* switch (config.regulation_mode) of turnForward and turnReverse
applyRegulationQuantity(m, Ripropri, speed, voltage, requested_current) ==
    CASE m.config.regulation_mode = "CURRENT_FIXED" ->
             setRegulationAndStallCurrent(m, Ripropri, requested_current)
      [] m.config.regulation_mode = "CURRENT_CYCLES" ->
             setRegulationAndStallCurrent(m, Ripropri, requested_current)
      [] m.config.regulation_mode = "SPEED" -> setRippleSpeed(m, speed)
      [] m.config.regulation_mode = "VOLTAGE" -> setVoltageSpeed(m, voltage)

\* two successive single-bit writes to CONFIG4
setDirectionBits(m, in1, in2) ==
    modifyRegister(modifyRegister(m, DRV8214_CONFIG4, CONFIG4_I2C_EN_IN1, in1),
                   DRV8214_CONFIG4, CONFIG4_I2C_PH_IN2, in2)

turnForward(m, Ripropri, speed, voltage, requested_current) ==
    LET m1 == disableHbridge(m)
        m2 == applyRegulationQuantity(m1, Ripropri, speed, voltage, requested_current)
    IN  Then(enableHbridge(m2), LAMBDA m3 :
        IF m3.config.control_mode = "PWM"
        THEN setDirectionBits(m3, TRUE, FALSE)
        ELSE setDirectionBits(m3, TRUE, TRUE))

turnReverse(m, Ripropri, speed, voltage, requested_current) ==
    LET m1 == enableHbridge(m)
    IN  Then(applyRegulationQuantity(m1, Ripropri, speed, voltage, requested_current),
             LAMBDA m2 :
        IF m2.config.control_mode = "PWM"
        THEN setDirectionBits(m2, FALSE, TRUE)
        ELSE setDirectionBits(m2, TRUE, FALSE))

brakeMotor(m) ==
    Then(enableHbridge(m), LAMBDA m1 :
    IF m1.config.control_mode = "PWM"
    THEN setDirectionBits(m1, TRUE, TRUE)
    ELSE setDirectionBits(m1, FALSE, FALSE))

coastMotor(m) ==
    Then(enableHbridge(m), LAMBDA m1 :
    IF m1.config.control_mode = "PWM"
    THEN setDirectionBits(m1, FALSE, FALSE)
    ELSE m1)

\* mutant: the threshold-reached policy is written on every call
turnXRipplesAlwaysWritesPolicy(m, Ripropri, ripples_target, stops, direction, speed, voltage, requested_current) ==
    LET m1 == resetRippleCounter(m)
        m2 == setRippleCountThreshold(m1, ToUint8(ripples_target))
        m3 == setBridgeBehaviorThresholdReached(m2, stops)
    IN  IF direction
        THEN turnForward(m3, Ripropri, ToUint8(speed), voltage, requested_current)
        ELSE turnReverse(m3, Ripropri, ToUint8(speed), voltage, requested_current)

\* ripples_target and speed are uint8_t parameters
turnXRipples(m, Ripropri, ripples_target, stops, direction, speed, voltage, requested_current) ==
    LET m1 == resetRippleCounter(m)
    IN  Then(setRippleCountThreshold(m1, ToUint8(ripples_target)), LAMBDA m2 :
        Then(IF stops # m2.config.bridge_behavior_thr_reached
             THEN setBridgeBehaviorThresholdReached(m2, stops)
             ELSE m2, LAMBDA m3 :
        IF direction
        THEN turnForward(m3, Ripropri, ToUint8(speed), voltage, requested_current)
        ELSE turnReverse(m3, Ripropri, ToUint8(speed), voltage, requested_current)))

\* uint8_t ripples_target = revolutions_target * ripples_per_revolution
turnXRevolutions(m, Ripropri, ripples_per_revolution, revolutions_target, stops, direction, speed, voltage, requested_current) ==
    turnXRipples(m, Ripropri,
                 ToUint8(ToUint8(revolutions_target) * ripples_per_revolution),
                 stops, direction, speed, voltage, requested_current)

init(m, motor_internal_resistance, cfg) ==
    Then(disableHbridge([m EXCEPT !.config = cfg]), LAMBDA m0 :
    Then(setControlMode(m0, m0.config.control_mode, m0.config.I2CControlled), LAMBDA m1 :
    Then(setRegulationMode(m1, m1.config.regulation_mode), LAMBDA m2 :
    Then(setVoltageRange(m2, m2.config.voltage_range), LAMBDA m3 :
    Then(setOvervoltageProtection(m3, m3.config.ovp_enabled), LAMBDA m4 :
    Then(setCurrentRegMode(m4, m4.config.current_reg_mode), LAMBDA m5 :
    Then(setStallDetection(m5, m5.config.stall_enabled), LAMBDA m6 :
    Then(setStallBehavior(m6, m6.config.stall_behavior), LAMBDA m7 :
    Then(setBridgeBehaviorThresholdReached(m7, m7.config.bridge_behavior_thr_reached),
         LAMBDA m8 :
    Then(setInternalVoltageReference(m8, 0), LAMBDA m9 :
    Then(setInrushDuration(m9, m9.config.inrush_duration), LAMBDA m10 :
    Then(setResistanceRelatedParameters(m10, motor_internal_resistance), LAMBDA m11 :
    Then(setMotorInverseResistance(m11, 51), LAMBDA m12 :
    Then(setMotorInverseResistanceScale(m12, 1024), LAMBDA m13 :
    brakeMotor(m13)))))))))))))))

---------------------------------------------------------------------------
(* State after construction                                                *)

\* DRV8214_Config's member initialisers; the members the handlers use
\* beyond those start at 0
DefaultConfig ==
    [ I2CControlled |-> TRUE, control_mode |-> "PWM", regulation_mode |-> "SPEED",
      voltage_range |-> TRUE, Vref |-> 500, stall_enabled |-> TRUE,
      ovp_enabled |-> TRUE, stall_behavior |-> FALSE,
      bridge_behavior_thr_reached |-> FALSE, current_reg_mode |-> 0,
      Aipropri |-> 0, Itrip |-> 0, MaxCurrent |-> 0, w_scale |-> 0,
      inv_r |-> 0, inv_r_scale |-> 0, inrush_duration |-> 0 ]

ControlModes    == { "PWM", "PH_EN" }
RegulationModes == { "CURRENT_FIXED", "CURRENT_CYCLES", "SPEED", "VOLTAGE" }

\* no scaling setter has run in the call
NoLocals == [mantissa |-> -1, selector |-> -1]

\* The constructor touches no register: the device holds whatever it held.
\* Two register files stand for that: every bit clear, every bit set.
DeviceBytes == { 0, 255 }

\* DRV8214(addr, id, sense_resistor, ripples): the unit's fixed fields
Drivers ==
    { [Ripropri |-> 100, ripples_per_revolution |-> 6,
       motor_internal_resistance |-> 200] }

Constructed(d, byte) ==
    /\ regs = [a \in RegisterAddresses |-> byte]
    /\ config = DefaultConfig
    /\ driver = d
    /\ pre = [regs |-> regs, config |-> config]
    /\ call = [name |-> "DRV8214", args |-> << >>]
    /\ locals = NoLocals
    /\ writes = << >>
    /\ steps = 0

Init == \E d \in Drivers, byte \in DeviceBytes : Constructed(d, byte)

---------------------------------------------------------------------------
(* Public calls.  Machine is the driver and device as a call finds them;   *)
(* Commit installs what the handler left.                                  *)

Machine == [regs |-> regs, config |-> config, locals |-> NoLocals, log |-> << >>]

Commit(name, args, m) ==
    /\ regs' = m.regs
    /\ config' = m.config
    /\ locals' = m.locals
    /\ writes' = m.log
    /\ pre' = [regs |-> regs, config |-> config]
    /\ call' = [name |-> name, args |-> args]
    /\ steps' = steps + 1
    /\ UNCHANGED driver


\* a getter: nothing is written, the value it returns is kept in call.ret
Return(name, value) ==
    /\ call' = [name |-> name, args |-> << >>, ret |-> value]
    /\ pre' = [regs |-> regs, config |-> config]
    /\ writes' = << >>
    /\ steps' = steps + 1
    /\ UNCHANGED <<regs, config, driver, locals>>

GetMotorSpeedRAD == Return("getMotorSpeedRAD", getMotorSpeedRAD(Machine))

Init_(cfg) ==
    Commit("init", <<cfg>>, init(Machine, driver.motor_internal_resistance, cfg))

EnableHbridge  == Commit("enableHbridge", << >>, enableHbridge(Machine))

DisableHbridge == Commit("disableHbridge", << >>, disableHbridge(Machine))

SetStallDetection(b) == Commit("setStallDetection", <<b>>, setStallDetection(Machine, b))

SetVoltageRange(b) == Commit("setVoltageRange", <<b>>, setVoltageRange(Machine, b))

SetOvervoltageProtection(b) ==
    Commit("setOvervoltageProtection", <<b>>, setOvervoltageProtection(Machine, b))

SetCurrentRegMode(mode) ==
    Commit("setCurrentRegMode", <<mode>>, setCurrentRegMode(Machine, mode))

SetStallBehavior(b) == Commit("setStallBehavior", <<b>>, setStallBehavior(Machine, b))

SetBridgeBehaviorThresholdReached(b) ==
    Commit("setBridgeBehaviorThresholdReached", <<b>>,
           setBridgeBehaviorThresholdReached(Machine, b))

SetRegulationAndStallCurrent(requested_current) ==
    Commit("setRegulationAndStallCurrent", <<requested_current>>,
           setRegulationAndStallCurrent(Machine, driver.Ripropri, requested_current))

SetRippleSpeed(speed) == Commit("setRippleSpeed", <<speed>>, setRippleSpeed(Machine, speed))

SetVoltageSpeed(voltage) ==
    Commit("setVoltageSpeed", <<voltage>>, setVoltageSpeed(Machine, voltage))

SetRippleCountThreshold(threshold) ==
    Commit("setRippleCountThreshold", <<threshold>>,
           setRippleCountThreshold(Machine, threshold))

ConfigureRippleCount2(ripple2) ==
    Commit("configureRippleCount2", <<ripple2>>, configureRippleCount2(Machine, ripple2))

SetControlMode(mode, I2CControl) ==
    Commit("setControlMode", <<mode, I2CControl>>,
           setControlMode(Machine, mode, I2CControl))

SetRegulationMode(regulation) ==
    Commit("setRegulationMode", <<regulation>>, setRegulationMode(Machine, regulation))

TurnForward(q) ==
    Commit("turnForward", q, turnForward(Machine, driver.Ripropri, q[1], q[2], q[3]))

TurnReverse(q) ==
    Commit("turnReverse", q, turnReverse(Machine, driver.Ripropri, q[1], q[2], q[3]))

SetResistanceRelatedParameters ==
    Commit("setResistanceRelatedParameters", << >>,
           setResistanceRelatedParameters(Machine, driver.motor_internal_resistance))

BrakeMotor == Commit("brakeMotor", << >>, brakeMotor(Machine))

CoastMotor == Commit("coastMotor", << >>, coastMotor(Machine))

TurnXRipples(ripples_target, stops, direction, q) ==
    Commit("turnXRipples", <<ripples_target, stops, direction>> \o q,
           turnXRipples(Machine, driver.Ripropri, ripples_target, stops, direction,
                        q[1], q[2], q[3]))

TurnXRevolutions(revolutions_target, stops, direction, q) ==
    Commit("turnXRevolutions", <<revolutions_target, stops, direction>> \o q,
           turnXRevolutions(Machine, driver.Ripropri, driver.ripples_per_revolution,
                            revolutions_target, stops, direction, q[1], q[2], q[3]))

---------------------------------------------------------------------------
(* Main specification: any sequence of at most MaxCalls public calls of    *)
(* the motion sequencer on a constructed driver, with requests drawn from  *)
(* small sets.                                                             *)

MaxCalls == 3

\* configurations handed to init: every control and regulation mode
InitConfigs ==
    { [DefaultConfig EXCEPT !.control_mode = c, !.regulation_mode = r] :
          c \in ControlModes, r \in RegulationModes }

ThresholdRequests == { 512, 8192 }
RippleTargets     == { 1, 200 }
RevolutionTargets == { 50 }

\* <<speed, voltage, requested_current>> of a motion command
MotionRequests == { <<1000, 200, 300>> }

CallInit == steps < MaxCalls /\ \E cfg \in InitConfigs : Init_(cfg)

CallEnableHbridge == steps < MaxCalls /\ EnableHbridge

CallDisableHbridge == steps < MaxCalls /\ DisableHbridge

CallSetRippleCountThreshold ==
    steps < MaxCalls /\ \E v \in ThresholdRequests : SetRippleCountThreshold(v)

CallConfigureRippleCount2 ==
    steps < MaxCalls /\ \E byte \in DeviceBytes : ConfigureRippleCount2(byte)

CallSetControlMode ==
    steps < MaxCalls /\ \E c \in ControlModes, b \in BOOLEAN : SetControlMode(c, b)

CallTurnForward == steps < MaxCalls /\ \E q \in MotionRequests : TurnForward(q)

CallTurnReverse == steps < MaxCalls /\ \E q \in MotionRequests : TurnReverse(q)

CallBrakeMotor == steps < MaxCalls /\ BrakeMotor

CallCoastMotor == steps < MaxCalls /\ CoastMotor

CallTurnXRipples ==
    /\ steps < MaxCalls
    /\ \E n \in RippleTargets, stops \in BOOLEAN, direction \in BOOLEAN,
          q \in MotionRequests : TurnXRipples(n, stops, direction, q)

CallTurnXRevolutions ==
    /\ steps < MaxCalls
    /\ \E n \in RevolutionTargets, stops \in BOOLEAN, q \in MotionRequests :
          TurnXRevolutions(n, stops, TRUE, q)

Next ==
    \/ CallInit
    \/ CallEnableHbridge
    \/ CallDisableHbridge
    \/ CallSetRippleCountThreshold
    \/ CallConfigureRippleCount2
    \/ CallSetControlMode
    \/ CallTurnForward
    \/ CallTurnReverse
    \/ CallBrakeMotor
    \/ CallCoastMotor
    \/ CallTurnXRipples
    \/ CallTurnXRevolutions

Spec == Init /\ [][Next]_vars

---------------------------------------------------------------------------
(* Scaling specification: the driver is constructed and initialised, then  *)
(* one scaling setter is applied to one request, which ranges over the     *)
(* setter's whole argument range.                                          *)

\* uint16_t speed, uint16_t threshold
SpeedInputs     == 0 .. UINT16_MAX
ThresholdInputs == 0 .. UINT16_MAX

\* requests in centivolts: -2 V .. 20 V
VoltageInputs == -200 .. 2000

\* requests in milliamperes: -0.1 A .. 4.5 A
CurrentInputs == -100 .. 4500

\* the default configuration and the one with the other voltage range
ScalingConfigs == { [DefaultConfig EXCEPT !.voltage_range = b] : b \in BOOLEAN }

ScalingInit == \E d \in Drivers : Constructed(d, 255)

ScalingSetup == steps = 0 /\ \E cfg \in ScalingConfigs : Init_(cfg)

ScalingSpeed == steps = 1 /\ \E speed \in SpeedInputs : SetRippleSpeed(speed)

ScalingThreshold ==
    steps = 1 /\ \E threshold \in ThresholdInputs : SetRippleCountThreshold(threshold)

ScalingVoltage == steps = 1 /\ \E voltage \in VoltageInputs : SetVoltageSpeed(voltage)

ScalingCurrent ==
    steps = 1 /\ \E requested_current \in CurrentInputs :
                     SetRegulationAndStallCurrent(requested_current)

\* the speed is read back once a speed has been set
ScalingGetSpeed == steps = 2 /\ call.name = "setRippleSpeed" /\ GetMotorSpeedRAD

ScalingNext ==
    \/ ScalingSetup
    \/ ScalingSpeed
    \/ ScalingGetSpeed
    \/ ScalingThreshold
    \/ ScalingVoltage
    \/ ScalingCurrent

SpecScaling == ScalingInit /\ [][ScalingNext]_vars

---------------------------------------------------------------------------
(* Resistance specification: a driver is constructed for a motor of any    *)
(* resistance from 0 to 200 ohm, in tenths of an ohm; it is initialised    *)
(* and setResistanceRelatedParameters is applied, in either order.         *)

MotorResistances == 0 .. 2000

ResistanceDrivers ==
    { [Ripropri |-> 100, ripples_per_revolution |-> 6,
       motor_internal_resistance |-> r] : r \in MotorResistances }

ResistanceInit == \E d \in ResistanceDrivers : Constructed(d, 255)

ResistanceSetup == steps < 2 /\ call.name # "init" /\ Init_(DefaultConfig)

ResistanceSet ==
    steps < 2 /\ call.name # "setResistanceRelatedParameters"
              /\ SetResistanceRelatedParameters

ResistanceNext ==
    \/ ResistanceSetup
    \/ ResistanceSet

SpecResistance == ResistanceInit /\ [][ResistanceNext]_vars

---------------------------------------------------------------------------
(* Option specification: any sequence of at most MaxCalls calls of init    *)
(* and of the option setters on a constructed driver.                      *)

\* the default configuration and the one with every boolean option inverted
OptionConfigs ==
    { DefaultConfig,
      [DefaultConfig EXCEPT !.ovp_enabled = FALSE, !.voltage_range = FALSE,
                            !.stall_enabled = FALSE, !.stall_behavior = TRUE,
                            !.bridge_behavior_thr_reached = TRUE] }

\* uint8_t mode of setCurrentRegMode, one value beyond the cap
CurrentRegModes == 0 .. 4

OptionInit == steps < MaxCalls /\ \E cfg \in OptionConfigs : Init_(cfg)

OptionSetOvervoltageProtection ==
    steps < MaxCalls /\ \E OVP \in BOOLEAN : SetOvervoltageProtection(OVP)

OptionSetVoltageRange == steps < MaxCalls /\ \E range \in BOOLEAN : SetVoltageRange(range)

OptionSetStallDetection ==
    steps < MaxCalls /\ \E stall_en \in BOOLEAN : SetStallDetection(stall_en)

OptionSetStallBehavior ==
    steps < MaxCalls /\ \E behavior \in BOOLEAN : SetStallBehavior(behavior)

OptionSetBridgeBehaviorThresholdReached ==
    steps < MaxCalls /\ \E stops \in BOOLEAN : SetBridgeBehaviorThresholdReached(stops)

OptionSetCurrentRegMode ==
    steps < MaxCalls /\ \E mode \in CurrentRegModes : SetCurrentRegMode(mode)

OptionNext ==
    \/ OptionInit
    \/ OptionSetOvervoltageProtection
    \/ OptionSetVoltageRange
    \/ OptionSetStallDetection
    \/ OptionSetStallBehavior
    \/ OptionSetBridgeBehaviorThresholdReached
    \/ OptionSetCurrentRegMode

SpecOptions == Init /\ [][OptionNext]_vars

---------------------------------------------------------------------------
(* Properties of the unit scaling setters (SpecScaling)                    *)

Called(name) == call.name = name

\* scale factor selected by a 2-bit selector code, per quantity
SpeedFactor(selector)     == 16 * (2 ^ selector)
ThresholdFactor(selector) == << 2, 8, 16, 64 >>[selector + 1]

Least(S) == CHOOSE x \in S : \A y \in S : x <= y

\* C1: for every requested speed v in 0..32640, setRippleSpeed writes a
\* mantissa m to REG_CTRL1 and chooses a selector of factor s such that m*s
\* differs from v by less than s and m*s does not exceed 32640.
C1_SpeedWithinOneStep ==
    (Called("setRippleSpeed") /\ call.args[1] <= 32640) =>
        LET v == call.args[1]
            m == regs[DRV8214_REG_CTRL1]
            s == SpeedFactor(config.w_scale)
        IN  /\ \E i \in 1 .. Len(writes) : writes[i] = <<DRV8214_REG_CTRL1, m>>
            /\ m * s - v < s
            /\ v - m * s < s
            /\ m * s <= 32640

\* C2: for every requested speed v in 16..32640, setRippleSpeed selects the
\* smallest factor s of {16,32,64,128} with s <= v and floor(v/s) < 256, and
\* writes the mantissa floor(v/s); a request of 1000 gives mantissa 62 with
\* the selector of factor 16.
C2_SpeedSmallestFactor ==
    (Called("setRippleSpeed") /\ call.args[1] \in 16 .. 32640) =>
        LET v == call.args[1]
            s == Least({ f \in {16, 32, 64, 128} : f <= v /\ v \div f < 256 })
        IN  /\ SpeedFactor(config.w_scale) = s
            /\ regs[DRV8214_REG_CTRL1] = v \div s
            /\ v = 1000 => (regs[DRV8214_REG_CTRL1] = 62 /\ config.w_scale = 0)

\* C3: a request smaller than every scale factor of the table (speed below
\* 16, threshold below 2) is written as mantissa 0 with the selector of the
\* smallest factor.
C3_BelowTableMantissaZero ==
    /\ (Called("setRippleSpeed") /\ call.args[1] < 16) =>
           (regs[DRV8214_REG_CTRL1] = 0 /\ config.w_scale = 0)
    /\ (Called("setRippleCountThreshold") /\ call.args[1] < 2) =>
           (regs[DRV8214_RC_CTRL1] = 0 /\ locals = [mantissa |-> 0, selector |-> 0])

\* effective value mantissa * factor a setter produces for request v, were
\* it called in the state the last call started from
Started == [regs |-> pre.regs, config |-> pre.config, locals |-> NoLocals, log |-> << >>]

EffectiveSpeed(v) ==
    LET m == setRippleSpeed(Started, v)
    IN  m.regs[DRV8214_REG_CTRL1] * SpeedFactor(m.config.w_scale)

EffectiveThreshold(v) ==
    LET m == setRippleCountThreshold(Started, v)
    IN  m.locals.mantissa * ThresholdFactor(m.locals.selector)

\* C4: encoding is monotonic: for requests v1 < v2 within range (0..32640
\* for the speed, 0..65535 for the threshold) the effective value produced
\* for v1 is at most the one produced for v2.
C4_EncodingMonotonic ==
    /\ (Called("setRippleSpeed") /\ call.args[1] <= 32640) =>
           \A v1 \in 0 .. call.args[1] - 1 :
               EffectiveSpeed(v1) <= regs[DRV8214_REG_CTRL1] * SpeedFactor(config.w_scale)
    /\ Called("setRippleCountThreshold") =>
           \A v1 \in 0 .. call.args[1] - 1 :
               EffectiveThreshold(v1)
                   <= locals.mantissa * ThresholdFactor(locals.selector)

\* C5: for every threshold v in 2..65535, setRippleCountThreshold selects the
\* smallest factor s of {2,8,16,64} with s <= v and floor(v/s) < 1024 and
\* uses the mantissa floor(v/s), so mantissa*s is within one step s of v and
\* does not exceed v; a request of 500 gives mantissa 250 with the selector
\* of factor 2.
C5_ThresholdSmallestFactor ==
    (Called("setRippleCountThreshold") /\ call.args[1] \in 2 .. 65535) =>
        LET v == call.args[1]
            s == Least({ f \in {2, 8, 16, 64} : f <= v /\ v \div f < 1024 })
            m == locals.mantissa
        IN  /\ ThresholdFactor(locals.selector) = s
            /\ m = v \div s
            /\ m < 1024
            /\ m * s <= v
            /\ v - m * s < s
            /\ v = 500 => (m = 250 /\ locals.selector = 0)

\* a threshold whose encoding needs the largest factor and the largest mantissa
C5_Witness ==
    /\ Called("setRippleCountThreshold")
    /\ call.args[1] = 65535
    /\ locals = [mantissa |-> 1023, selector |-> 3]

\* C7: after setRippleCountThreshold, the register map's field masks read
\* back the chosen encoding: RC_CTRL1 holds mantissa bits 7..0, RC_THR_HIGH
\* of RC_CTRL2 holds mantissa bits 9..8, RC_THR_SCALE of RC_CTRL2 holds the
\* selector.
C7_ThresholdFieldsReadBack ==
    Called("setRippleCountThreshold") =>
        /\ regs[DRV8214_RC_CTRL1] = locals.mantissa % 256
        /\ Field(regs[DRV8214_RC_CTRL2], RC_CTRL2_RC_THR_HIGH) = locals.mantissa \div 256
        /\ Field(regs[DRV8214_RC_CTRL2], RC_CTRL2_RC_THR_SCALE) = locals.selector

\* Table 8-7 "CS_GAIN_SEL Settings": code, gain factor (uA/A), maximum (mA)
GainTable ==
    { [code |-> 7, gain |-> 5560, max |-> 125],  [code |-> 6, gain |-> 5560, max |-> 250],
      [code |-> 3, gain |-> 1125, max |-> 500],  [code |-> 2, gain |-> 1125, max |-> 1000],
      [code |-> 1, gain |-> 225,  max |-> 2000], [code |-> 0, gain |-> 225,  max |-> 4000] }

\* the setting of the smallest maximum among `rows`, the 4 A setting if none
SmallestSetting(rows) ==
    IF rows = {} THEN CHOOSE r \in GainTable : r.max = 4000
    ELSE CHOOSE r \in rows : \A q \in rows : r.max <= q.max

\* the mirror and the CS_GAIN_SEL field of RC_CTRL0 both hold setting r
GainSelected(r) ==
    /\ Field(regs[DRV8214_RC_CTRL0], RC_CTRL0_CS_GAIN_SEL) = r.code
    /\ config.Aipropri = r.gain
    /\ config.MaxCurrent = r.max

\* C8 as stated: setRegulationAndStallCurrent(I) selects the setting with
\* the smallest maximum current >= I (a request equal to a maximum selects
\* that setting), requests above 4 A select the 4 A setting, and the mirror
\* holds the gain and maximum of the code written; 0.3 A selects 1125 uA/A,
\* 0.5 A.
C8_GainCoversRequest ==
    Called("setRegulationAndStallCurrent") =>
        LET I == call.args[1]
        IN  GainSelected(SmallestSetting({ r \in GainTable : r.max >= I }))

\* C8 amended: the setting selected is the one with the smallest maximum
\* current strictly above I (a request equal to a setting's maximum selects
\* the next larger setting), requests of 4 A and above select the 4 A
\* setting, and the mirror holds the gain and maximum of the code written;
\* 0.3 A selects 1125 uA/A, 0.5 A.
C8_GainStrictlyAboveRequest ==
    Called("setRegulationAndStallCurrent") =>
        LET I == call.args[1]
        IN  /\ GainSelected(SmallestSetting({ r \in GainTable : r.max > I }))
            /\ I = 300 => (config.Aipropri = 1125 /\ config.MaxCurrent = 500)

\* a request equal to the maximum of the 0.25 A setting
C8_Witness ==
    /\ Called("setRegulationAndStallCurrent")
    /\ call.args[1] = 250
    /\ config.MaxCurrent = 500
    /\ Field(regs[DRV8214_RC_CTRL0], RC_CTRL0_CS_GAIN_SEL) = 3

\* c is an integer nearest to voltage * 255 / range
NearestCode(c, voltage, range) ==
    /\ c \in 0 .. 255
    /\ 2 * (range * c - 255 * voltage) <= range
    /\ 2 * (255 * voltage - range * c) <= range

\* C9: setVoltageSpeed never rejects a request and writes exactly one
\* nearest-integer 8-bit code to REG_CTRL1: a negative request writes 0; in
\* the 0-3.92 V range every request >= 3.92 V writes 255; in the 0-15.7 V
\* range every request above 15.7 V writes the code of 11 V, 179, and a
\* request up to 15.7 V writes round(v * 255 / 15.7).
C9_VoltageCode ==
    Called("setVoltageSpeed") =>
        LET v == call.args[1]
            c == regs[DRV8214_REG_CTRL1]
        IN  /\ writes = << <<DRV8214_REG_CTRL1, c>> >>
            /\ v < 0 => c = 0
            /\ (pre.config.voltage_range /\ v >= 392) => c = 255
            /\ (pre.config.voltage_range /\ v \in 0 .. 392) => NearestCode(c, v, 392)
            /\ (~pre.config.voltage_range /\ v > 1570) => (c = 179 /\ NearestCode(c, 1100, 1570))
            /\ (~pre.config.voltage_range /\ v \in 0 .. 1570) => NearestCode(c, v, 1570)

\* a request above the 15.7 V range, written as the code of 11 V
C9_Witness ==
    /\ Called("setVoltageSpeed")
    /\ ~pre.config.voltage_range
    /\ call.args[1] = 2000
    /\ regs[DRV8214_REG_CTRL1] = 179

\* C16: speed decoding inverts speed encoding: after setRippleSpeed chose the
\* selector k of scale factor s_k, getMotorSpeedRAD returns the byte read
\* from RC_STATUS1 times s_k.
C16_SpeedDecodingInvertsEncoding ==
    Called("getMotorSpeedRAD") =>
        call.ret = regs[DRV8214_RC_STATUS1] * SpeedFactor(locals.selector)

\* C17: after setRippleSpeed the W_SCALE field of REG_CTRL0 holds the
\* selector code the algorithm chose and the other bits of REG_CTRL0 are
\* unchanged.
C17_WScaleFieldHoldsSelector ==
    Called("setRippleSpeed") =>
        /\ Field(regs[DRV8214_REG_CTRL0], REG_CTRL0_W_SCALE) = locals.selector
        /\ BitAnd(regs[DRV8214_REG_CTRL0], BitNot8(REG_CTRL0_W_SCALE))
               = BitAnd(pre.regs[DRV8214_REG_CTRL0], BitNot8(REG_CTRL0_W_SCALE))

---------------------------------------------------------------------------
(* Properties of call sequences (Spec)                                     *)

\* C6: setRippleCountThreshold, alone or inside turnXRipples, leaves every
\* bit of RC_CTRL2 outside the threshold high bits and the threshold scale
\* selector as it was; in particular INV_R_SCALE (0xC0) and KMC_SCALE (0x30)
\* hold the values they had before the call.
C6_ThresholdPreservesCtrl2 ==
    (Called("setRippleCountThreshold") \/ Called("turnXRipples")) =>
        LET others == BitNot8(BitOr(RC_CTRL2_RC_THR_HIGH, RC_CTRL2_RC_THR_SCALE))
            before == pre.regs[DRV8214_RC_CTRL2]
            after  == regs[DRV8214_RC_CTRL2]
        IN  /\ BitAnd(after, others) = BitAnd(before, others)
            /\ Field(after, RC_CTRL2_INV_R_SCALE) = Field(before, RC_CTRL2_INV_R_SCALE)
            /\ Field(after, RC_CTRL2_KMC_SCALE) = Field(before, RC_CTRL2_KMC_SCALE)

\* the machine as the last call found it
Before == [regs |-> pre.regs, config |-> pre.config, locals |-> NoLocals, log |-> << >>]

\* the registers the regulation quantities are written to
IsQuantityWrite(w) ==
    w[1] \in { DRV8214_REG_CTRL0, DRV8214_REG_CTRL1, DRV8214_RC_CTRL0 }

IsDirectionWrite(w) == w[1] = DRV8214_CONFIG4

\* the bus writes of the setter that belongs to the mirrored regulation mode
QuantityLog(mode, q) ==
    CASE mode = "SPEED"   -> setRippleSpeed(Before, q[1]).log
      [] mode = "VOLTAGE" -> setVoltageSpeed(Before, q[2]).log
      [] OTHER            -> setRegulationAndStallCurrent(Before, driver.Ripropri, q[3]).log

\* C11: in every call of turnForward and turnReverse, the writes of the
\* regulation quantity are those of the setter selected by the mirrored
\* regulation_mode, and all of them are issued before the first write to the
\* CONFIG4 direction bits.
C11_QuantityBeforeDirection ==
    (Called("turnForward") \/ Called("turnReverse")) =>
        /\ SelectSeq(writes, IsQuantityWrite)
               = QuantityLog(pre.config.regulation_mode, call.args)
        /\ \E j \in 1 .. Len(writes) : IsDirectionWrite(writes[j])
        /\ \A i, j \in 1 .. Len(writes) :
               (IsQuantityWrite(writes[i]) /\ IsDirectionWrite(writes[j])) => i < j

\* turnReverse under voltage regulation in PH/EN mode: one quantity write
\* (the voltage code of the request) between enable and direction
C11_Witness ==
    /\ Called("turnReverse")
    /\ pre.config.regulation_mode = "VOLTAGE"
    /\ pre.config.control_mode = "PH_EN"
    /\ Len(writes) = 4
    /\ writes[2][1] = DRV8214_REG_CTRL1
    /\ writes[3][1] = DRV8214_CONFIG4

\* the register file after the first k bus writes of the last call
RECURSIVE RegsAfter(_)
RegsAfter(k) ==
    IF k = 0 THEN pre.regs
    ELSE [RegsAfter(k - 1) EXCEPT ![writes[k][1]] = DeviceLatch(writes[k][1], writes[k][2])]

\* C12: every write that changes the control-interface mode bit PMODE of
\* CONFIG4 is issued while CONFIG0.EN_OUT is 0, in setControlMode called on
\* its own as well as inside init.
C12_ModeChangeWhileDisabled ==
    (Called("setControlMode") \/ Called("init")) =>
        \A k \in 1 .. Len(writes) :
            Field(RegsAfter(k)[DRV8214_CONFIG4], CONFIG4_PMODE)
                    # Field(RegsAfter(k - 1)[DRV8214_CONFIG4], CONFIG4_PMODE)
                => Field(RegsAfter(k - 1)[DRV8214_CONFIG0], CONFIG0_EN_OUT) = 0

\* C13: turnXRipples first resets the ripple counter and writes the threshold
\* (RC_CTRL1, RC_CTRL2); it then writes the RC_HIZ policy bit of RC_CTRL0 if
\* and only if `stops` differs from the mirrored policy at call time; the
\* Forward/Reverse transition comes after these writes, and after the call
\* the mirrored policy equals `stops`.
C13_PolicyWrittenOnlyOnChange ==
    Called("turnXRipples") =>
        LET stops   == call.args[2]
            differs == stops # pre.config.bridge_behavior_thr_reached
            first   == IF differs THEN 5 ELSE 4
        IN  /\ Len(writes) > first
            /\ writes[1] = <<DRV8214_CONFIG0,
                             BitOr(pre.regs[DRV8214_CONFIG0], CONFIG0_CLR_CNT)>>
            /\ writes[2][1] = DRV8214_RC_CTRL1
            /\ writes[3][1] = DRV8214_RC_CTRL2
            /\ (writes[4][1] = DRV8214_RC_CTRL0) <=> differs
            /\ differs =>
                   /\ Field(writes[4][2], RC_CTRL0_RC_HIZ) = (IF stops THEN 1 ELSE 0)
                   /\ BitAnd(writes[4][2], BitNot8(RC_CTRL0_RC_HIZ))
                          = BitAnd(pre.regs[DRV8214_RC_CTRL0], BitNot8(RC_CTRL0_RC_HIZ))
            /\ config.bridge_behavior_thr_reached = stops
            /\ writes[first][1] = DRV8214_CONFIG0
            /\ \A k \in first .. Len(writes) :
                   /\ writes[k][1] \notin { DRV8214_RC_CTRL1, DRV8214_RC_CTRL2 }
                   /\ Field(writes[k][2], RC_CTRL0_RC_HIZ)
                          = Field(RegsAfter(first - 1)[DRV8214_RC_CTRL0], RC_CTRL0_RC_HIZ)
                      \/ writes[k][1] # DRV8214_RC_CTRL0
            /\ \A k \in 1 .. first - 1 : ~IsDirectionWrite(writes[k])

\* a second counted move with the policy already mirrored as `stops`: the
\* transition follows the threshold writes directly
C13_Witness ==
    /\ Called("turnXRipples")
    /\ call.args[2] = TRUE
    /\ pre.config.bridge_behavior_thr_reached = TRUE
    /\ writes[4][1] = DRV8214_CONFIG0
    /\ Field(regs[DRV8214_RC_CTRL0], RC_CTRL0_RC_HIZ) = 1

\* C14: turnXRevolutions programs the ripple-count threshold with the
\* encoding of revolutions_target * ripples_per_revolution (clamped to
\* 65535): its threshold writes are those of setRippleCountThreshold applied
\* to the untruncated product.
C14_RevolutionsProductNotTruncated ==
    Called("turnXRevolutions") =>
        LET product  == call.args[1] * driver.ripples_per_revolution
            target   == IF product > 65535 THEN 65535 ELSE product
            expected == setRippleCountThreshold(Before, target).log
        IN  /\ writes[2] = expected[1]
            /\ writes[3] = expected[2]

\* the CONFIG4 direction bits <<I2C_EN_IN1, I2C_PH_IN2>> of a register file
DirectionBits(r) ==
    << Field(r[DRV8214_CONFIG4], CONFIG4_I2C_EN_IN1),
       Field(r[DRV8214_CONFIG4], CONFIG4_I2C_PH_IN2) >>

\* Table 8-5 (PWM: IN1, IN2) and Table 8-4 (PH/EN: EN, PH)
ForwardPattern(mode) == IF mode = "PWM" THEN <<1, 0>> ELSE <<1, 1>>
ReversePattern(mode) == IF mode = "PWM" THEN <<0, 1>> ELSE <<1, 0>>

\* the bridge is enabled and the direction bits hold `pattern`
Drives(r, pattern) ==
    /\ Field(r[DRV8214_CONFIG0], CONFIG0_EN_OUT) = 1
    /\ DirectionBits(r) = pattern

\* the device's PMODE bit is the mirrored control-interface mode
ModeAgrees ==
    (Field(pre.regs[DRV8214_CONFIG4], CONFIG4_PMODE) = 1)
        = (pre.config.control_mode = "PWM")

\* C21: no device state between two register writes of turnForward has the
\* bridge enabled with the direction bits in the reverse pattern of the
\* control-interface mode, and none of turnReverse has it enabled with them
\* in the forward pattern, whatever state the call starts from.
C21_NoOppositeDriveState ==
    \A k \in 1 .. Len(writes) - 1 :
        /\ (Called("turnForward") /\ ModeAgrees) =>
               ~Drives(RegsAfter(k), ReversePattern(pre.config.control_mode))
        /\ (Called("turnReverse") /\ ModeAgrees) =>
               ~Drives(RegsAfter(k), ForwardPattern(pre.config.control_mode))

\* C10: when the mirrored control-interface mode is PH_EN, coastMotor issues
\* no register write and every device register holds the value it held
\* before the call.
C10_CoastNoOpInPhEn ==
    (Called("coastMotor") /\ pre.config.control_mode = "PH_EN") =>
        (writes = << >> /\ regs = pre.regs)

---------------------------------------------------------------------------
(* Properties of the option setters (SpecOptions)                          *)

\* the device bit selected by `mask` in register `reg`, as a boolean
DeviceBit(reg, mask) == Field(regs[reg], mask) = 1

\* C15: after setOvervoltageProtection, setVoltageRange, setStallBehavior or
\* setBridgeBehaviorThresholdReached the mirrored field and the device bit
\* of the option both equal the value passed, and after init all four device
\* bits equal their mirrored fields; in particular
\* setOvervoltageProtection(false) clears EN_OVP.
C15_OptionMirrorMatchesDevice ==
    /\ Called("setOvervoltageProtection") =>
           /\ config.ovp_enabled = call.args[1]
           /\ DeviceBit(DRV8214_CONFIG0, CONFIG0_EN_OVP) = call.args[1]
    /\ Called("setVoltageRange") =>
           /\ config.voltage_range = call.args[1]
           /\ DeviceBit(DRV8214_CONFIG0, CONFIG0_VM_GAIN_SEL) = call.args[1]
    /\ Called("setStallBehavior") =>
           /\ config.stall_behavior = call.args[1]
           /\ DeviceBit(DRV8214_CONFIG3, CONFIG3_SMODE) = call.args[1]
    /\ Called("setBridgeBehaviorThresholdReached") =>
           /\ config.bridge_behavior_thr_reached = call.args[1]
           /\ DeviceBit(DRV8214_RC_CTRL0, RC_CTRL0_RC_HIZ) = call.args[1]
    /\ Called("init") =>
           /\ DeviceBit(DRV8214_CONFIG0, CONFIG0_EN_OVP) = config.ovp_enabled
           /\ DeviceBit(DRV8214_CONFIG0, CONFIG0_VM_GAIN_SEL) = config.voltage_range
           /\ DeviceBit(DRV8214_CONFIG3, CONFIG3_SMODE) = config.stall_behavior
           /\ DeviceBit(DRV8214_RC_CTRL0, RC_CTRL0_RC_HIZ)
                  = config.bridge_behavior_thr_reached

\* C18: setStallDetection(b) makes CONFIG0.EN_STALL equal to b and to the
\* mirrored stall_enabled and leaves CONFIG3, in particular SMODE, unchanged.
C18_StallDetectionInConfig0 ==
    Called("setStallDetection") =>
        /\ DeviceBit(DRV8214_CONFIG0, CONFIG0_EN_STALL) = call.args[1]
        /\ config.stall_enabled = call.args[1]
        /\ regs[DRV8214_CONFIG3] = pre.regs[DRV8214_CONFIG3]

\* C22: setCurrentRegMode(m) writes min(m, 3) into the IMODE field of
\* CONFIG3 and keeps the mirrored current_reg_mode in 0..3, so applying
\* setCurrentRegMode to the mirrored value again leaves the IMODE field
\* unchanged.
C22_CurrentRegModeIdempotent ==
    Called("setCurrentRegMode") =>
        LET mode    == IF call.args[1] > 3 THEN 3 ELSE call.args[1]
            reapply == setCurrentRegMode(Machine, config.current_reg_mode)
        IN  /\ Field(regs[DRV8214_CONFIG3], CONFIG3_IMODE) = mode
            /\ config.current_reg_mode \in 0 .. 3
            /\ Field(reapply.regs[DRV8214_CONFIG3], CONFIG3_IMODE)
                   = Field(regs[DRV8214_CONFIG3], CONFIG3_IMODE)

---------------------------------------------------------------------------
(* Properties of the inverse-resistance encoding (SpecResistance)          *)

\* scale factors in search order, with their selector codes
InvRSearchOrder ==
    << [scale |-> 8192, selector |-> 3], [scale |-> 1024, selector |-> 2],
       [scale |-> 64, selector |-> 1], [scale |-> 2, selector |-> 0] >>

\* max(1, round(scale / resistance)) for a resistance r > 0 in tenths of an ohm
RoundedCandidate(scale, r) ==
    LET below   == (10 * scale) \div r
        nearest == IF 2 * (10 * scale - below * r) >= r THEN below + 1 ELSE below
    IN  IF nearest < 1 THEN 1 ELSE nearest

\* the first entry of the search order whose candidate is at most 255
InvRExpected(r) ==
    LET fits == { i \in 1 .. 4 : r > 0 /\ RoundedCandidate(InvRSearchOrder[i].scale, r) <= 255 }
    IN  IF fits = {} THEN [inv_r |-> 1, selector |-> 0]
        ELSE [inv_r    |-> RoundedCandidate(InvRSearchOrder[Least(fits)].scale, r),
              selector |-> InvRSearchOrder[Least(fits)].selector]

C20_InitInverseResistanceAgrees ==
    Called("init") =>
        /\ regs[DRV8214_RC_CTRL3] = config.inv_r
        /\ Field(regs[DRV8214_RC_CTRL2], RC_CTRL2_INV_R_SCALE) = config.inv_r_scale

====
